---- MODULE Spec2Model ----
(***************************************************************************)
(* IVI_pdf_packer (src/pdf_folder_merger_tk.py): the folder merger that    *)
(* counts the pages of every PDF of a folder, lays out a table of contents *)
(* (TOC), resolves the start page of every document, assembles the output  *)
(* (TOC pages, documents, bookmarks), stamps a header/footer on every page *)
(* and writes the result.                                                  *)
(*                                                                         *)
(* Spec          one run of merge_pdfs_with_toc over a bounded folder.     *)
(* SpecAnyLayout the same run with the layout function called by the       *)
(*               resolver drawn from a family (the code's own included).   *)
(* SpecLayout    calls of _build_toc_pdf_bytes over bounded geometries.    *)
(***************************************************************************)
EXTENDS Integers, Sequences, FiniteSets, TLC

VARIABLES
    pc,           \* position of the run inside merge_pdfs_with_toc
    folder,       \* the directory: [listable, entries]
    fs,           \* the destination: [dir, file]
    fs_before,    \* the destination as the run found it
    files,        \* local files (names, in listing order)
    page_counts,  \* local page_counts
    idx,          \* loop index i of the counting / merging loop
    plan,         \* locals toc_pages, starts, toc_entries, toc_bytes
    writer,       \* the PdfWriter: [pages, outline]
    progress,     \* calls of progress_cb, in order
    log,          \* calls of log_cb, in order
    reads,        \* PdfReader(f) calls so far, per file
    error,        \* the exception that ended the run, or NoError
    result,       \* the returned dict, or NoResult
    layoutKind,   \* which layout function the resolver calls
    outlineLib,   \* what add_outline_item does with an index that is no page
    geom,         \* geometry of the _build_toc_pdf_bytes calls of SpecLayout
    tocCall,      \* last call of _build_toc_pdf_bytes of SpecLayout
    lppLog,       \* lines_per_page of every call of SpecLayout, in order
    gui,          \* the window: btnRun, varStatus, the dialog shown, the form
    uiQueue,      \* calls handed to the UI thread by root.after, not yet run
    uiHandled,    \* calls the UI has run for the current run, in order
    header_text,  \* argument header_text of the run, a sequence of characters
    booklet,      \* a call of _sides_4up_cut_middle_user_scheme: its locals
    fields        \* the window's varFolder, varPrefix, varOut and _outIsDefault

vars == <<pc, folder, fs, fs_before, files, page_counts, idx, plan, writer, progress,
          log, reads, error, result, layoutKind, outlineLib, geom, tocCall,
          lppLog, gui, uiQueue, uiHandled, header_text, booklet, fields>>

mergeVars == <<pc, folder, fs, fs_before, files, page_counts, idx, plan, writer,
               progress, log, reads, error, result, layoutKind, outlineLib>>

\* The variables of the other programs and harnesses, which a merge run
\* and the window leave alone
layoutVars == <<geom, tocCall, lppLog, booklet, fields>>

guiVars == <<gui, uiQueue, uiHandled>>

(***************************************************************************)
(* Bounds                                                                  *)
(***************************************************************************)
MaxFiles == 3

MaxPageCount == 2

(***************************************************************************)
(* Helpers                                                                 *)
(***************************************************************************)
Max(a, b) == IF a >= b THEN a ELSE b

Min(a, b) == IF a <= b THEN a ELSE b

\* s[a] + ... + s[b], by halves (the recursion stays shallow)
RECURSIVE SumRange(_, _, _)
SumRange(s, a, b) ==
    IF a > b THEN 0
    ELSE IF a = b THEN s[a]
    ELSE LET m == (a + b) \div 2
         IN  SumRange(s, a, m) + SumRange(s, m + 1, b)

SumTo(s, n) == SumRange(s, 1, n)

Sum(s) == SumTo(s, Len(s))

(***************************************************************************)
(* _build_toc_pdf_bytes                                                    *)
(***************************************************************************)
\* A plausible slip: the TOC is laid out on an A4 page.
DefaultGeometry_A4 ==
    [h |-> 842, w |-> 595, left_margin |-> 54, top_margin |-> 54,
     bottom_margin |-> 54, font_size |-> 11, line_gap |-> 3, title_gap |-> 18]

DefaultGeometry ==
    [h |-> 792, w |-> 612, left_margin |-> 54, top_margin |-> 54,
     bottom_margin |-> 54, font_size |-> 11, line_gap |-> 3, title_gap |-> 18]

\* A plausible slip: the page count returned is len // lines_per_page + 1
\* while the pages drawn are the ones the entries need.
build_toc_pdf_bytes_OffByOne(entries, g) ==
    LET usable_h == g.h - g.top_margin - g.bottom_margin
        line_h == g.font_size + g.line_gap
        header_space == g.title_gap + 2 * line_h
        lines_per_page == Max(1, (usable_h - header_space) \div line_h)
        drawn == Max(1, (Len(entries) + (lines_per_page - 1)) \div lines_per_page)
        draw_page(page_idx) ==
            LET start == page_idx * lines_per_page
                end == Min(Len(entries), start + lines_per_page)
            IN  [lines |-> SubSeq(entries, start + 1, end)]
    IN  [lines_per_page |-> lines_per_page,
         toc_pages |-> (Len(entries) \div lines_per_page) + 1,
         pages |-> [k \in 1..drawn |-> draw_page(k - 1)]]

\* A plausible slip: the capacity shrinks with the number of entries (a line
\* budget shared with the entries instead of a property of the template).
build_toc_pdf_bytes_EntryDependent(entries, g) ==
    LET usable_h == g.h - g.top_margin - g.bottom_margin
        line_h == g.font_size + g.line_gap
        header_space == g.title_gap + 2 * line_h
        lines_per_page ==
            Max(1, ((usable_h - header_space) \div line_h) - Len(entries))
        toc_pages == Max(1, (Len(entries) + (lines_per_page - 1)) \div lines_per_page)
        draw_page(page_idx) ==
            LET start == page_idx * lines_per_page
                end == Min(Len(entries), start + lines_per_page)
            IN  [lines |-> SubSeq(entries, start + 1, end)]
    IN  [lines_per_page |-> lines_per_page,
         toc_pages |-> toc_pages,
         pages |-> [k \in 1..toc_pages |-> draw_page(k - 1)]]

\* A plausible slip: a page starts with the last line of the page before.
build_toc_pdf_bytes_Overlap(entries, g) ==
    LET usable_h == g.h - g.top_margin - g.bottom_margin
        line_h == g.font_size + g.line_gap
        header_space == g.title_gap + 2 * line_h
        lines_per_page == Max(1, (usable_h - header_space) \div line_h)
        toc_pages == Max(1, (Len(entries) + (lines_per_page - 1)) \div lines_per_page)
        draw_page(page_idx) ==
            LET start == Max(0, page_idx * lines_per_page - 1)
                end == Min(Len(entries), start + lines_per_page)
            IN  [lines |-> SubSeq(entries, start + 1, end)]
    IN  [lines_per_page |-> lines_per_page,
         toc_pages |-> toc_pages,
         pages |-> [k \in 1..toc_pages |-> draw_page(k - 1)]]

\* entries: sequence of <<name, pg>>; g: the keyword parameters. The result
\* is the local lines_per_page, the returned toc_pages and the pages drawn
\* (one per showPage), each with the lines drawn on it.
build_toc_pdf_bytes(entries, g) ==
    LET usable_h == g.h - g.top_margin - g.bottom_margin
        line_h == g.font_size + g.line_gap
        header_space == g.title_gap + 2 * line_h
        lines_per_page == Max(1, (usable_h - header_space) \div line_h)
        toc_pages == Max(1, (Len(entries) + (lines_per_page - 1)) \div lines_per_page)
        draw_page(page_idx) ==
            LET start == page_idx * lines_per_page
                end == Min(Len(entries), start + lines_per_page)
            IN  [lines |-> SubSeq(entries, start + 1, end)]
    IN  [lines_per_page |-> lines_per_page,
         toc_pages |-> toc_pages,
         pages |-> [k \in 1..toc_pages |-> draw_page(k - 1)]]

DefaultLinesPerPage == build_toc_pdf_bytes(<<>>, DefaultGeometry).lines_per_page

(***************************************************************************)
(* The layout function the resolver calls at lines 205, 214 and 223. The   *)
(* program calls _build_toc_pdf_bytes with its default geometry            *)
(* (layoutKind = "code"). The other kinds are layout functions whose page  *)
(* count depends on the entry values; only SpecAnyLayout draws them, to    *)
(* exercise the resolver's re-check with a layout that can disagree.       *)
(***************************************************************************)
LayoutKinds == {"code", "parity", "wide"}

\* k pages: the code's pages, cut or padded with empty pages to k.
WithPageCount(r, k) ==
    [lines_per_page |-> r.lines_per_page,
     toc_pages |-> k,
     pages |-> [p \in 1..k |->
                  IF p <= Len(r.pages) THEN r.pages[p] ELSE [lines |-> <<>>]]]

\* "parity": one more page when the first entry's page number is even.
\* "wide":   an entry whose page number has two digits takes two lines.
StubLayout(kind, entries) ==
    LET r == build_toc_pdf_bytes(entries, DefaultGeometry)
        wideLines == Cardinality({k \in 1..Len(entries) : entries[k][2] >= 10})
    IN  IF kind = "parity"
        THEN WithPageCount(r, r.toc_pages
                 + (IF entries # <<>> /\ entries[1][2] % 2 = 0 THEN 1 ELSE 0))
        ELSE WithPageCount(r, Max(1,
                 (Len(entries) + wideLines + (r.lines_per_page - 1))
                     \div r.lines_per_page))

Layout(entries) ==
    IF layoutKind = "code"
    THEN build_toc_pdf_bytes(entries, DefaultGeometry)
    ELSE StubLayout(layoutKind, entries)

(***************************************************************************)
(* The folder and the destination                                          *)
(***************************************************************************)
NoFile == 0

\* A basename without its extension is a number 2 * r + c: r >= 1 is the
\* alphabetical rank of its lower-cased spelling, c = 1 when it is spelled
\* in upper case ("B" is Spelled(2, TRUE), "b" is Spelled(2, FALSE)).
Spelled(r, upper) == 2 * r + (IF upper THEN 1 ELSE 0)

\* str.lower() of a basename
lower(name) == 2 * (name \div 2)

\* The order of the raw strings: every upper-case letter comes before every
\* lower-case one.
code_point_less(a, b) ==
    \/ a % 2 = 1 /\ b % 2 = 0
    \/ a % 2 = b % 2 /\ a < b

\* str.lower() of an extension
lower_ext(ext) == IF ext \in {"PDF", "Pdf"} THEN "pdf" ELSE ext

\* name: the basename; ext: its extension as spelled; isfile:
\* os.path.isfile; pages: the pages of the document; size: the width and
\* height of the mediabox of its pages, in points.
DirEntry(name, ext, isfile, pages, size) ==
    [name |-> name, ext |-> ext, isfile |-> isfile, pages |-> pages, size |-> size]

Letter == <<612, 792>>

\* A directory named like a PDF and a file that is no PDF.
Noise ==
    {DirEntry(Spelled(1, FALSE), "pdf", FALSE, 0, Letter),
     DirEntry(Spelled(1, TRUE), "txt", TRUE, 1, Letter)}

\* The page size of document k: letter throughout; A4 and landscape letter
\* in turn; or a mediabox of no width and one of no height in turn.
SizeOf(sizing, k) ==
    IF sizing = "letter" THEN Letter
    ELSE IF sizing = "mixed" THEN (IF k % 2 = 1 THEN <<595, 842>> ELSE <<792, 612>>)
    ELSE (IF k % 2 = 1 THEN <<0, 792>> ELSE <<612, 0>>)

\* The basename of document k: all in lower case; odd documents in upper
\* case; or documents 2j-1 and 2j spelled alike up to case.
NameOf(style, k) ==
    IF style = "lower" THEN Spelled(k + 1, FALSE)
    ELSE IF style = "mixed" THEN Spelled(k + 1, k % 2 = 1)
    ELSE Spelled(((k + 1) \div 2) + 1, k % 2 = 0)

ExtOf(style, k) ==
    IF style = "lower" THEN "pdf"
    ELSE IF k % 2 = 1 THEN "PDF" ELSE "Pdf"

SortedSeq(S) ==
    [k \in 1..Cardinality(S) |->
        CHOOSE x \in S : Cardinality({y \in S : y < x}) = k - 1]

Reversed(seq) == [k \in 1..Len(seq) |-> seq[Len(seq) + 1 - k]]

\* listing: the names in the order os.listdir returns them, which is any
\* order; here ascending or descending by number.
FolderOf(counts, style, noise, order, sizing) ==
    LET entries == {DirEntry(NameOf(style, k), ExtOf(style, k), TRUE, counts[k],
                             SizeOf(sizing, k)) :
                        k \in 1..Len(counts)} \cup noise
        asc == SortedSeq({e.name : e \in entries})
    IN  [listable |-> TRUE,
         entries |-> entries,
         listing |-> IF order = "asc" THEN asc ELSE Reversed(asc)]

Unlistable == [listable |-> FALSE, entries |-> {}, listing |-> <<>>]

SmallCounts == UNION {[1..n -> 0..MaxPageCount] : n \in 0..MaxFiles}

\* Folders around the capacity of one TOC page, and the 100 documents of
\* scenario D; their page counts alternate between two values.
BigFileCounts == {DefaultLinesPerPage, DefaultLinesPerPage + 1, 100}

BigCounts ==
    {[k \in 1..n |-> pat[((k - 1) % 2) + 1]] :
        n \in BigFileCounts, pat \in [1..2 -> 0..MaxPageCount]}

Destinations ==
    {[dir |-> FALSE, file |-> "absent"],
     [dir |-> TRUE, file |-> "absent"],
     [dir |-> TRUE, file |-> "old"]}

NewFile == [dir |-> TRUE, file |-> "absent"]

\* Three documents of 2, 1 and 5 pages
ScenarioA == FolderOf(<<2, 1, 5>>, "lower", {}, "desc", "letter")

Inputs ==
    ({Unlistable} \X Destinations)
    \cup ({FolderOf(c, "lower", n, "desc", "letter") :
                c \in SmallCounts, n \in {{}, Noise}} \X Destinations)
    \cup ({FolderOf(c, "mixed", Noise, "desc", "letter") : c \in SmallCounts}
             \X {NewFile})
    \cup ({FolderOf(c, "ties", {}, "asc", "letter") : c \in SmallCounts} \X {NewFile})
    \cup ({FolderOf(c, "ties", Noise, "desc", "letter") : c \in SmallCounts}
             \X {NewFile})
    \cup ({FolderOf(c, "lower", {}, "asc", sz) :
                c \in SmallCounts, sz \in {"mixed", "degenerate"}} \X {NewFile})
    \cup ({FolderOf(c, "lower", {}, "desc", "letter") : c \in BigCounts} \X {NewFile})
    \cup ({ScenarioA} \X {NewFile})

EntryOf(fd, name) == CHOOSE e \in fd.entries : e.name = name

\* line 43
is_pdf(e) == lower_ext(e.ext) = "pdf"

\* A plausible slip: the list is sorted by the names as spelled.
sort_by_key_CaseSensitive(seq) ==
    LET n == Len(seq)
        before(p, q) == code_point_less(seq[p], seq[q])
        posOf == [q \in 1..n |-> Cardinality({p \in 1..n : before(p, q)}) + 1]
    IN  [k \in 1..n |-> seq[CHOOSE q \in 1..n : posOf[q] = k]]

\* line 53: list.sort with the lower-cased basename as the key; the sort is
\* stable, names with equal keys keep the order they came in.
sort_by_key(seq) ==
    LET n == Len(seq)
        before(p, q) ==
            \/ lower(seq[p]) < lower(seq[q])
            \/ lower(seq[p]) = lower(seq[q]) /\ p < q
        posOf == [q \in 1..n |-> Cardinality({p \in 1..n : before(p, q)}) + 1]
    IN  [k \in 1..n |-> seq[CHOOSE q \in 1..n : posOf[q] = k]]

\* lines 46-54
list_pdfs_in_folder(fd) ==
    IF ~fd.listable
    THEN <<>>
    ELSE sort_by_key(SelectSeq(fd.listing,
             LAMBDA nm : is_pdf(EntryOf(fd, nm)) /\ EntryOf(fd, nm).isfile))

\* len(PdfReader(pdf_path).pages) of a readable file
count_pages(f) == EntryOf(folder, f).pages

(***************************************************************************)
(* merge_pdfs_with_toc                                                     *)
(***************************************************************************)
NoError == [type |-> "none", file |-> NoFile]

NoResult == [returned |-> FALSE]

NoPlan ==
    [toc_pages |-> 0, starts |-> <<>>, toc_entries |-> <<>>, toc_bytes |-> <<>>,
     used |-> 0, corrected |-> FALSE]

EmptyWriter == [pages |-> <<>>, outline |-> <<>>]

NoCall == [entries |-> <<>>, lines_per_page |-> 0, toc_pages |-> 0, pages |-> <<>>]

\* A plausible slip: the callback is given the 0-based loop index.
Progress_ZeroBased(i, n, msg, f) == [i |-> i - 1, n |-> n, msg |-> msg, file |-> f]

\* lines 196-197, 238-239, 250-251: one call progress_cb(i, n, msg)
Progress(i, n, msg, f) == [i |-> i, n |-> n, msg |-> msg, file |-> f]

(***************************************************************************)
(* Booklet imposition, docx_pdf_booklet_4up_ivim_app050.py                  *)
(***************************************************************************)
\* None: a blank slot
Blank == 0

\* A plausible slip: a multiple of intK is rounded up to the next one.
next_multiple_AlwaysUp(intN, intK) == ((intN \div intK) + 1) * intK

\* lines 45-46
next_multiple(intN, intK) == ((intN + intK - 1) \div intK) * intK

\* A plausible slip: the last real page is taken for padding.
as_real_or_blank_Strict(intP, intRealPages) ==
    IF intP = Blank THEN Blank
    ELSE IF 1 <= intP /\ intP < intRealPages THEN intP ELSE Blank

\* lines 48-51
as_real_or_blank(intP, intRealPages) ==
    IF intP = Blank THEN Blank
    ELSE IF 1 <= intP /\ intP <= intRealPages THEN intP ELSE Blank

\* lines 82-89: the front side of block i
front_side(intTotal, i, intRealPages) ==
    LET a == intTotal - 4 * i
    IN  <<as_real_or_blank(a, intRealPages),
          as_real_or_blank(1 + 4 * i, intRealPages),
          as_real_or_blank(a - 2, intRealPages),
          as_real_or_blank(3 + 4 * i, intRealPages)>>

\* lines 82 and 90-95: the back side of block i
back_side(intTotal, i, intRealPages) ==
    LET a == intTotal - 4 * i
    IN  <<as_real_or_blank(2 + 4 * i, intRealPages),
          as_real_or_blank(a - 1, intRealPages),
          as_real_or_blank(4 + 4 * i, intRealPages),
          as_real_or_blank(a - 3, intRealPages)>>

\* No call of _sides_4up_cut_middle_user_scheme
NoBooklet ==
    [pc |-> "none", intRealPages |-> 0, intTotal |-> 0, intBlocks |-> 0, i |-> 0,
     vecSides |-> <<>>]

(***************************************************************************)
(* Text: a string is a sequence of its characters.                         *)
(***************************************************************************)
Whitespace == {" ", "\t", "\n"}

\* str.lstrip()
RECURSIVE lstrip(_)
lstrip(text) ==
    IF text # <<>> /\ Head(text) \in Whitespace THEN lstrip(Tail(text)) ELSE text

\* str.rstrip()
RECURSIVE rstrip(_)
rstrip(text) ==
    IF text # <<>> /\ text[Len(text)] \in Whitespace
    THEN rstrip(SubSeq(text, 1, Len(text) - 1))
    ELSE text

\* str.strip()
strip(text) == rstrip(lstrip(text))

\* line 39, DEFAULT_HEADER, shortened to its first and last characters
DefaultHeader == <<"5", "5">>

\* Header texts: none, blanks only, text, text between blanks and text with
\* a blank inside.
Headers ==
    {<<>>, <<" ">>, <<"\t", "\n">>, <<"a">>, <<" ", "a", "\n">>, <<"a", " ", "b">>}

\* The folders of at most one entry are run with every header, the others
\* with the default header.
HeadersFor(fd) ==
    IF Cardinality(fd.entries) <= 1 THEN Headers ELSE {DefaultHeader}

(***************************************************************************)
(* Paths: a path is the sequence of its components, each a text; the       *)
(* empty string is no path.                                                *)
(***************************************************************************)
Sep == "/"

Path(comps) == [empty |-> FALSE, comps |-> comps]

EmptyPath == [empty |-> TRUE, comps |-> <<>>]

\* The directories there are: the root, /a and /a/b; /a/f is a file.
Dirs == {Path(<<>>), Path(<<<<"a">>>>), Path(<<<<"a">>, <<"b">>>>)}

NotDirs == {Path(<<<<"a">>, <<"f">>>>)}

\* os.path.isdir
isdir(path) == path \in Dirs

\* The working directory of the process
Cwd == <<<<"w">>>>

Packed == <<"p", "a", "c", "k", "e", "d">>

PdfExt == <<".", "p", "d", "f">>

\* line 38, DEFAULT_PREFIX, shortened to its first and last characters
DefaultPrefix == <<"5", "k">>

\* Prefixes: none, a blank, text, text between blanks, text with a separator
Prefixes ==
    {<<>>, <<" ">>, DefaultPrefix, <<" ", "a", " ">>, <<"a", Sep, "b">>}

\* x or "packed"
or_packed(text) == IF text # <<>> THEN text ELSE Packed

\* str.replace(os.sep, "_")
replace_sep(text) == [k \in 1..Len(text) |-> IF text[k] = Sep THEN "_" ELSE text[k]]

\* The components of a relative path, empty ones dropped
RECURSIVE split_sep(_, _)
split_sep(text, current) ==
    IF text = <<>>
    THEN (IF current = <<>> THEN <<>> ELSE <<current>>)
    ELSE IF Head(text) = Sep
    THEN (IF current = <<>> THEN <<>> ELSE <<current>>) \o split_sep(Tail(text), <<>>)
    ELSE split_sep(Tail(text), Append(current, Head(text)))

\* os.path.abspath of a file name given relative to the working directory
\* (or from the root, if it begins with a separator)
abspath(text) ==
    IF text # <<>> /\ Head(text) = Sep
    THEN Path(split_sep(text, <<>>))
    ELSE Path(Cwd \o split_sep(text, <<>>))

\* lines 371-375
default_output_for_folder_prefix(dir, prefix) ==
    LET parent == IF dir.comps = <<>>
                  THEN dir.comps
                  ELSE SubSeq(dir.comps, 1, Len(dir.comps) - 1)
        safe_prefix == replace_sep(or_packed(strip(prefix)))
    IN  Path(Append(parent, safe_prefix \o PdfExt))

\* lines 377-385
set_default_output(f) ==
    LET prefix == strip(f.varPrefix)
        out == IF ~f.varFolder.empty /\ isdir(f.varFolder)
               THEN default_output_for_folder_prefix(f.varFolder, prefix)
               ELSE abspath(or_packed(prefix) \o PdfExt)
    IN  [f EXCEPT !.varOut = out, !.outIsDefault = TRUE]

\* lines 387-389
set_default_output_if_not_custom(f) ==
    IF f.outIsDefault THEN set_default_output(f) ELSE f

\* No window. last: the handler that ran last; preview: the folder whose
\* files were listed in the log last.
NoFields ==
    [varFolder |-> EmptyPath, varPrefix |-> <<>>, varOut |-> EmptyPath,
     outIsDefault |-> TRUE, status |-> "", preview |-> EmptyPath, last |-> "none"]

\* merge_pdfs_with_toc called by another caller than the window
NoGui ==
    [mode |-> "direct", btnRun |-> "normal", status |-> "", dialog |-> "none",
     form |-> "ok", runs |-> 0, varHeader |-> <<>>, workers |-> 0,
     reenabled |-> 0]

\* A call handed to the UI thread. no: the position of the callback among
\* the callbacks the pipeline has issued in this run (0: another call).
Event(kind, no, arg) == [kind |-> kind, no |-> no, arg |-> arg]

\* lines 467-468, 485, 496: root.after(0, ...) puts the call behind the
\* calls already waiting and returns at once.
after(queue, events) == queue \o events

\* The callbacks a caller passes: the window's hand the call to the UI
\* thread, as the callback at position Len(progress) + Len(log) + k.
Callbacks(kind, args) ==
    uiQueue' =
        IF gui.mode = "gui"
        THEN after(uiQueue, [k \in 1..Len(args) |->
                 Event(kind, Len(progress) + Len(log) + k, args[k])])
        ELSE uiQueue

\* type: the exception class; file: the file its message names, if any
Fail(type, f) ==
    /\ pc' = "failed"
    /\ error' = [type |-> type, file |-> f]

InitMerge ==
    /\ pc = "start"
    /\ \E inp \in Inputs : folder = inp[1] /\ fs = inp[2]
    /\ fs_before = fs
    /\ files = <<>>
    /\ page_counts = <<>>
    /\ idx = 0
    /\ plan = NoPlan
    /\ writer = EmptyWriter
    /\ progress = <<>>
    /\ log = <<>>
    /\ reads = <<>>
    /\ error = NoError
    /\ result = NoResult
    /\ outlineLib \in {"raises", "number"}
    /\ geom = DefaultGeometry
    /\ tocCall = NoCall
    /\ lppLog = <<>>
    /\ gui = NoGui
    /\ uiQueue = <<>>
    /\ uiHandled = <<>>
    /\ header_text \in HeadersFor(folder)
    /\ booklet = NoBooklet
    /\ fields = NoFields

Init ==
    /\ InitMerge
    /\ layoutKind = "code"

\* A plausible slip: the emptiness check is missing.
ListFiles_NoCheck ==
    /\ pc = "start"
    /\ files' = list_pdfs_in_folder(folder)
    /\ pc' = "count"
    /\ idx' = 1
    /\ UNCHANGED <<folder, fs, fs_before, page_counts, plan, writer, progress, log, reads,
                   error, result, layoutKind, outlineLib>>
    /\ UNCHANGED layoutVars
    /\ UNCHANGED header_text
    /\ UNCHANGED guiVars

\* lines 190-192
ListFiles ==
    /\ pc = "start"
    /\ files' = list_pdfs_in_folder(folder)
    /\ IF files' = <<>>
       THEN /\ Fail("ValueError", NoFile)
            /\ idx' = idx
       ELSE /\ pc' = "count"
            /\ idx' = 1
            /\ error' = error
    /\ UNCHANGED <<folder, fs, fs_before, page_counts, plan, writer, progress, log, reads,
                   result, layoutKind, outlineLib>>
    /\ UNCHANGED layoutVars
    /\ UNCHANGED header_text
    /\ UNCHANGED guiVars

\* lines 195-202, one iteration of the counting loop; an empty list ends it
\* at once. PdfReader either parses the file or raises.
CountPages ==
    /\ pc = "count"
    /\ IF idx > Len(files)
       THEN /\ pc' = "resolve"
            /\ UNCHANGED <<page_counts, idx, progress, reads, error, uiQueue>>
       ELSE LET f == files[idx] IN
            /\ progress' = Append(progress,
                                  Progress(idx, Len(files), "Counting pages", f))
            /\ Callbacks("progress",
                         <<Progress(idx, Len(files), "Counting pages", f)>>)
            /\ reads' = Append(reads, f)
            /\ \/ /\ page_counts' = Append(page_counts, count_pages(f))
                  /\ idx' = idx + 1
                  /\ pc' = pc
                  /\ error' = error
               \/ /\ Fail("RuntimeError", f)
                  /\ UNCHANGED <<page_counts, idx>>
    /\ UNCHANGED <<folder, fs, fs_before, files, plan, writer, log, result,
                   layoutKind, outlineLib>>
    /\ UNCHANGED layoutVars
    /\ UNCHANGED header_text
    /\ UNCHANGED <<gui, uiHandled>>

\* A plausible slip: the first document starts on the last TOC page.
compute_starts_NoOffset(toc_pages, counts) ==
    [k \in 1..Len(counts) |-> toc_pages + SumTo(counts, k - 1)]

\* A plausible slip: current is never advanced.
compute_starts_NoAdvance(toc_pages, counts) ==
    [k \in 1..Len(counts) |-> toc_pages + 1]

\* lines 209-211 (and 219-221): the loop over page_counts, run from the
\* value of current it is entered with; it yields the starts appended and
\* the value of current it ends with. A list of several counts is run as
\* its first half followed by its second half.
RECURSIVE starts_loop(_, _)
starts_loop(counts, current) ==
    IF counts = <<>>
    THEN [starts |-> <<>>, current |-> current]
    ELSE IF Len(counts) = 1
    THEN [starts |-> <<current>>, current |-> current + counts[1]]
    ELSE LET m == Len(counts) \div 2
             a == starts_loop(SubSeq(counts, 1, m), current)
             b == starts_loop(SubSeq(counts, m + 1, Len(counts)), a.current)
         IN  [starts |-> a.starts \o b.starts, current |-> b.current]

\* lines 207-211 (and 217-221)
compute_starts(toc_pages, counts) == starts_loop(counts, toc_pages + 1).starts

\* A plausible slip: the first layout is made of no entry at all.
placeholder_entries_None(fl) == <<>>

\* line 204
placeholder_entries(fl) == [k \in 1..Len(fl) |-> <<fl[k], 1>>]

make_toc_entries(fl, starts) ==
    [k \in 1..Min(Len(fl), Len(starts)) |-> <<fl[k], starts[k]>>]

\* lines 204-223. used: the toc_pages value the kept starts were computed
\* from; corrected: whether the branch of line 215 was taken.
resolve_pagination(fl, counts) ==
    LET first == Layout(placeholder_entries(fl))
        starts0 == compute_starts(first.toc_pages, counts)
        entries0 == make_toc_entries(fl, starts0)
        check == Layout(entries0)
    IN  IF check.toc_pages # first.toc_pages
        THEN LET starts1 == compute_starts(check.toc_pages, counts)
                 entries1 == make_toc_entries(fl, starts1)
                 final == Layout(entries1)
             IN  [toc_pages |-> final.toc_pages, starts |-> starts1,
                  toc_entries |-> entries1, toc_bytes |-> final.pages,
                  used |-> check.toc_pages, corrected |-> TRUE]
        ELSE [toc_pages |-> first.toc_pages, starts |-> starts0,
              toc_entries |-> entries0, toc_bytes |-> check.pages,
              used |-> first.toc_pages, corrected |-> FALSE]

\* lines 225-228: the line of the TOC page count, then a line per document
log_lines(pl) ==
    <<[name |-> NoFile, page |-> pl.toc_pages]>>
        \o [k \in 1..Len(pl.toc_entries) |->
               [name |-> pl.toc_entries[k][1], page |-> pl.toc_entries[k][2]]]

\* lines 204-228: the resolver and the log lines
Resolve ==
    /\ pc = "resolve"
    /\ plan' = resolve_pagination(files, page_counts)
    /\ log' = log \o log_lines(plan')
    /\ Callbacks("log", log_lines(plan'))
    /\ pc' = "assemble"
    /\ UNCHANGED <<folder, fs, fs_before, files, page_counts, idx, writer, progress, reads,
                   error, result, layoutKind, outlineLib>>
    /\ UNCHANGED layoutVars
    /\ UNCHANGED header_text
    /\ UNCHANGED <<gui, uiHandled>>

\* No header drawn on a page
NoHeader == [drawn |-> FALSE, text |-> <<>>]

\* The mediabox of the pages of a document; the TOC pages are drawn on the
\* default page size (lines 69-70).
PageSize(src) ==
    IF src = NoFile
    THEN <<DefaultGeometry.w, DefaultGeometry.h>>
    ELSE EntryOf(folder, src).size

\* A page of the writer: src is the file it comes from (NoFile: the TOC),
\* no its 1-based number there, w and h its mediabox; once stamped, footer is
\* <<i, total>> and overlay the page size of the overlay merged into it.
Page(src, no) ==
    [src |-> src, no |-> no, w |-> PageSize(src)[1], h |-> PageSize(src)[2],
     stamped |-> FALSE, footer |-> <<0, 0>>, overlay |-> <<0, 0>>,
     header |-> NoHeader]

\* A plausible slip: only the first page of the TOC is added.
toc_reader_pages_FirstOnly(toc_bytes) == <<Page(NoFile, 1)>>

\* lines 233-234: the pages PdfReader finds in toc_bytes
toc_reader_pages(toc_bytes) == [k \in 1..Len(toc_bytes) |-> Page(NoFile, k)]

\* A plausible slip: the output file is opened before the pages are assembled.
AddTocPages_OpensOutput ==
    /\ pc = "assemble"
    /\ writer' = [pages |-> toc_reader_pages(plan.toc_bytes), outline |-> <<>>]
    /\ fs' = [dir |-> TRUE, file |-> "partial"]
    /\ pc' = "merge"
    /\ idx' = 1
    /\ UNCHANGED <<folder, fs_before, files, page_counts, plan, progress, log, reads,
                   error, result, layoutKind, outlineLib>>
    /\ UNCHANGED layoutVars
    /\ UNCHANGED header_text
    /\ UNCHANGED guiVars

\* lines 230-235
AddTocPages ==
    /\ pc = "assemble"
    /\ writer' = [pages |-> toc_reader_pages(plan.toc_bytes), outline |-> <<>>]
    /\ pc' = "merge"
    /\ idx' = 1
    /\ UNCHANGED <<folder, fs, fs_before, files, page_counts, plan, progress, log, reads,
                   error, result, layoutKind, outlineLib>>
    /\ UNCHANGED layoutVars
    /\ UNCHANGED header_text
    /\ UNCHANGED guiVars

\* A plausible slip: the last page of every document is left out.
reader_pages_DropLast(f) == [k \in 1..(count_pages(f) - 1) |-> Page(f, k)]

\* lines 240-243: the pages PdfReader finds in file f
reader_pages(f) == [k \in 1..count_pages(f) |-> Page(f, k)]

\* A plausible slip: the bookmark is given the 1-based start page.
file_start_index_OneBased(starts, i) == starts[i]

\* line 241
file_start_index(starts, i) == starts[i] - 1

\* lines 244-247: add_outline_item inside try/except. With page_number no
\* index of writer.pages the library, depending on its version, either
\* raises IndexError (swallowed: no bookmark) or keeps the bare number as
\* the target.
add_outline_item(outline, pages, title, page_number) ==
    IF (page_number >= 0 /\ page_number < Len(pages)) \/ outlineLib = "number"
    THEN Append(outline, [title |-> title, page_number |-> page_number])
    ELSE outline

\* lines 237-247, one iteration of the merging loop. PdfReader(f) is called
\* again (outside any try) and either parses the file or raises; what is
\* raised is the library's own exception, whose message may name the file
\* (a missing file) or not (a parse error).
MergeFile ==
    /\ pc = "merge"
    /\ IF idx > Len(files)
       THEN /\ pc' = "stamp"
            /\ UNCHANGED <<idx, writer, progress, reads, error, uiQueue>>
       ELSE LET f == files[idx]
                pages1 == writer.pages \o reader_pages(f)
            IN
            /\ progress' = Append(progress,
                                  Progress(idx, Len(files), "Merging", f))
            /\ Callbacks("progress", <<Progress(idx, Len(files), "Merging", f)>>)
            /\ reads' = Append(reads, f)
            /\ \/ /\ writer' =
                        [pages |-> pages1,
                         outline |-> add_outline_item(writer.outline, pages1, f,
                                         file_start_index(plan.starts, idx))]
                  /\ idx' = idx + 1
                  /\ pc' = pc
                  /\ error' = error
               \/ /\ \E named \in {f, NoFile} : Fail("PdfReaderException", named)
                  /\ UNCHANGED <<idx, writer>>
    /\ UNCHANGED <<folder, fs, fs_before, files, page_counts, plan, log, result,
                   layoutKind, outlineLib>>
    /\ UNCHANGED layoutVars
    /\ UNCHANGED header_text
    /\ UNCHANGED <<gui, uiHandled>>

\* A plausible slip: the footer carries the 0-based index.
overlay_footer_ZeroBased(i, total) == <<i, total>>

\* lines 168-174 and 154: the footer of the overlay of the page at 0-based
\* index i, "Page {i + 1} of {total}"
overlay_footer(i, total) == <<i + 1, total>>

\* A plausible slip: the header text is tested as it came.
overlay_header_NoStrip(header) ==
    IF header # <<>>
    THEN [drawn |-> TRUE, text |-> strip(header)]
    ELSE NoHeader

\* lines 149-151: the header of an overlay, drawn if header_text.strip() is
\* not empty, and then as header_text.strip()
overlay_header(header) ==
    IF strip(header) # <<>>
    THEN [drawn |-> TRUE, text |-> strip(header)]
    ELSE NoHeader

\* A plausible slip: every overlay is drawn on a letter page.
overlay_size_Letter(page) == <<612, 792>>

\* lines 165-167 and 146: the canvas of the overlay has the width and the
\* height of the page's mediabox
overlay_size(page) == <<page.w, page.h>>

\* lines 161-180: every page gets its overlay, whatever its mediabox;
\* merge_page leaves the mediabox and the content of the page in place.
\* merge_page raising is swallowed and leaves that page as it was (bad: the
\* pages where it raises); nothing is logged or returned.
stamp_header_footer_on_writer(pages, header, bad) ==
    LET total == Len(pages)
    IN  [k \in 1..Len(pages) |->
            IF k \in bad
            THEN pages[k]
            ELSE [pages[k] EXCEPT !.stamped = TRUE,
                                  !.header = overlay_header(header),
                                  !.footer = overlay_footer(k - 1, total),
                                  !.overlay = overlay_size(pages[k])]]

Degenerate(page) == page.w = 0 \/ page.h = 0

\* The pages where merge_page may raise: none, or one page among the first
\* TOC page, the first page after the TOC, the last page and the pages of
\* no width or no height.
BadPageChoices(pages) ==
    {{}} \cup {{k} : k \in ({1, plan.toc_pages + 1, Len(pages)} \cap 1..Len(pages))
                          \cup {j \in 1..Len(pages) : Degenerate(pages[j])}}

\* lines 249-251
Stamp ==
    /\ pc = "stamp"
    /\ progress' = Append(progress, Progress(1, 1, "Stamping", NoFile))
    /\ Callbacks("progress", <<Progress(1, 1, "Stamping", NoFile)>>)
    /\ \E bad \in BadPageChoices(writer.pages) :
          writer' = [writer EXCEPT
                        !.pages = stamp_header_footer_on_writer(writer.pages,
                                                                header_text, bad)]
    /\ pc' = "persist"
    /\ UNCHANGED <<folder, fs, fs_before, files, page_counts, idx, plan, log, reads, error,
                   result, layoutKind, outlineLib>>
    /\ UNCHANGED layoutVars
    /\ UNCHANGED header_text
    /\ UNCHANGED <<gui, uiHandled>>

\* lines 253-266: makedirs, open(output_path, "wb"), writer.write, return.
\* Each of the three may raise OSError; a failed write leaves a partial file.
Persist ==
    /\ pc = "persist"
    /\ \/ /\ Fail("OSError", NoFile)
          /\ UNCHANGED <<fs, result>>
       \/ /\ Fail("OSError", NoFile)
          /\ fs' = [fs EXCEPT !.dir = TRUE]
          /\ UNCHANGED result
       \/ /\ Fail("OSError", NoFile)
          /\ fs' = [dir |-> TRUE, file |-> "partial"]
          /\ UNCHANGED result
       \/ /\ fs' = [dir |-> TRUE, file |-> "written"]
          /\ result' = [returned |-> TRUE,
                        files |-> files,
                        page_counts |-> page_counts,
                        toc_pages |-> plan.toc_pages,
                        start_pages |-> plan.starts,
                        total_pages |-> Len(writer.pages),
                        header_text |-> header_text]
          /\ pc' = "done"
          /\ error' = error
    /\ UNCHANGED <<folder, fs_before, files, page_counts, idx, plan, writer,
                   progress, log, reads, layoutKind, outlineLib>>
    /\ UNCHANGED layoutVars
    /\ UNCHANGED header_text
    /\ UNCHANGED guiVars

Next ==
    \/ ListFiles
    \/ CountPages
    \/ Resolve
    \/ AddTocPages
    \/ MergeFile
    \/ Stamp
    \/ Persist

Spec == Init /\ [][Next]_vars

InitAnyLayout ==
    /\ InitMerge
    /\ layoutKind \in LayoutKinds

SpecAnyLayout == InitAnyLayout /\ [][Next]_vars

(***************************************************************************)
(* SpecLayout: _build_toc_pdf_bytes called, up to MaxCalls times, with      *)
(* entry lists of several lengths and values under one geometry.           *)
(***************************************************************************)
MaxCalls == 2

\* Page heights, margins, font sizes and line gaps; with the tall margins
\* the short pages have less usable height than the header block takes.
Geometries ==
    {[h |-> h, w |-> 612, left_margin |-> 54, top_margin |-> m,
      bottom_margin |-> m, font_size |-> fsz, line_gap |-> gap, title_gap |-> 18] :
        h \in {100, 150, 792}, m \in {0, 54}, fsz \in {8, 11}, gap \in {0, 3}}

\* floor((usable_height - header_block_height) / line_height), before the
\* clamp, from the geometry alone
RawCapacity(g) ==
    ((g.h - g.top_margin - g.bottom_margin)
        - (g.title_gap + 2 * (g.font_size + g.line_gap)))
    \div (g.font_size + g.line_gap)

EntryLengths(g) ==
    LET cap == Max(1, RawCapacity(g))
    IN  {0, 1, cap, cap + 1, 10 * cap}

\* placeholder page numbers, or page numbers that grow with the entry
EntryLists(g) ==
    {[k \in 1..n |-> <<k, IF real THEN 7 * k + 95 ELSE 1>>] :
        n \in EntryLengths(g), real \in BOOLEAN}

InitLayout ==
    /\ pc = "idle"
    /\ folder = Unlistable
    /\ fs = [dir |-> TRUE, file |-> "absent"]
    /\ fs_before = fs
    /\ files = <<>>
    /\ page_counts = <<>>
    /\ idx = 0
    /\ plan = NoPlan
    /\ writer = EmptyWriter
    /\ progress = <<>>
    /\ log = <<>>
    /\ reads = <<>>
    /\ error = NoError
    /\ result = NoResult
    /\ layoutKind = "code"
    /\ outlineLib = "raises"
    /\ geom \in Geometries
    /\ tocCall = NoCall
    /\ lppLog = <<>>
    /\ gui = NoGui
    /\ uiQueue = <<>>
    /\ uiHandled = <<>>
    /\ header_text = <<>>
    /\ booklet = NoBooklet
    /\ fields = NoFields

CallBuildToc ==
    /\ pc = "idle"
    /\ Len(lppLog) < MaxCalls
    /\ \E entries \in EntryLists(geom) :
          LET r == build_toc_pdf_bytes(entries, geom)
          IN  /\ tocCall' = [entries |-> entries,
                             lines_per_page |-> r.lines_per_page,
                             toc_pages |-> r.toc_pages,
                             pages |-> r.pages]
              /\ lppLog' = Append(lppLog, r.lines_per_page)
    /\ UNCHANGED <<geom, booklet, fields>>
    /\ UNCHANGED mergeVars
    /\ UNCHANGED guiVars
    /\ UNCHANGED header_text

NextLayout == CallBuildToc

SpecLayout == InitLayout /\ [][NextLayout]_vars

(***************************************************************************)
(* SpecGui: the window. The UI thread runs on_run and the calls handed to   *)
(* it; the worker thread on_run starts runs merge_pdfs_with_toc.            *)
(***************************************************************************)
MaxRuns == 2

\* line 299 and the state the widgets are built in. runs: the calls of
\* on_run; workers: the threads started; reenabled: the calls of
\* _set_running(False).
GuiIdle(form) ==
    [mode |-> "gui", btnRun |-> "normal",
     status |-> "Drop a folder, or click Browse.", dialog |-> "none",
     form |-> form, runs |-> 0, varHeader |-> DefaultHeader \o <<" ">>,
     workers |-> 0, reenabled |-> 0]

\* What the folder and output fields hold when the button is pressed: a
\* folder and a .pdf path, no folder (or no directory), or no .pdf path.
Forms == {"ok", "no_folder", "bad_out"}

\* Folders of documents of one page, in either listing order.
GuiFolders ==
    {Unlistable}
    \cup {FolderOf([k \in 1..n |-> 1], "mixed", {}, order, "letter") :
             n \in 0..MaxFiles, order \in {"asc", "desc"}}

InitGui ==
    /\ pc = "none"
    /\ folder \in GuiFolders
    /\ fs \in {NewFile, [dir |-> TRUE, file |-> "old"]}
    /\ fs_before = fs
    /\ files = <<>>
    /\ page_counts = <<>>
    /\ idx = 0
    /\ plan = NoPlan
    /\ writer = EmptyWriter
    /\ progress = <<>>
    /\ log = <<>>
    /\ reads = <<>>
    /\ error = NoError
    /\ result = NoResult
    /\ layoutKind = "code"
    /\ outlineLib = "raises"
    /\ geom = DefaultGeometry
    /\ tocCall = NoCall
    /\ lppLog = <<>>
    /\ \E form \in Forms : gui = GuiIdle(form)
    /\ uiQueue = <<>>
    /\ uiHandled = <<>>
    /\ header_text = <<>>
    /\ booklet = NoBooklet
    /\ fields = NoFields

\* A plausible slip: the button is left enabled while the worker runs.
OnRun_NoDisable ==
    /\ gui.mode = "gui"
    /\ gui.btnRun = "normal"
    /\ gui.runs < MaxRuns
    /\ IF gui.form = "no_folder"
       THEN /\ gui' = [gui EXCEPT !.dialog = "Missing folder", !.runs = @ + 1]
            /\ UNCHANGED <<pc, fs_before, files, page_counts, idx, plan, writer,
                           progress, log, reads, error, result, uiHandled,
                           header_text>>
       ELSE IF gui.form = "bad_out"
       THEN /\ gui' = [gui EXCEPT !.dialog = "Invalid output", !.runs = @ + 1]
            /\ UNCHANGED <<pc, fs_before, files, page_counts, idx, plan, writer,
                           progress, log, reads, error, result, uiHandled,
                           header_text>>
       ELSE /\ gui' = [gui EXCEPT !.btnRun = "normal", !.status = "Starting...",
                                  !.dialog = "none", !.runs = @ + 1,
                                  !.workers = @ + 1]
            /\ pc' = "spawned"
            /\ fs_before' = fs
            /\ files' = <<>>
            /\ page_counts' = <<>>
            /\ idx' = 0
            /\ plan' = NoPlan
            /\ writer' = EmptyWriter
            /\ progress' = <<>>
            /\ log' = <<>>
            /\ reads' = <<>>
            /\ error' = NoError
            /\ result' = NoResult
            /\ uiHandled' = <<>>
            /\ header_text' = strip(gui.varHeader)
    /\ UNCHANGED <<folder, fs, layoutKind, outlineLib, uiQueue>>
    /\ UNCHANGED layoutVars

\* lines 443-498 up to the start of the thread. The button runs its command
\* only while it is enabled. The locals of the run are fresh.
OnRun ==
    /\ gui.mode = "gui"
    /\ gui.btnRun = "normal"
    /\ gui.runs < MaxRuns
    /\ IF gui.form = "no_folder"
       THEN /\ gui' = [gui EXCEPT !.dialog = "Missing folder", !.runs = @ + 1]
            /\ UNCHANGED <<pc, fs_before, files, page_counts, idx, plan, writer,
                           progress, log, reads, error, result, uiHandled,
                           header_text>>
       ELSE IF gui.form = "bad_out"
       THEN /\ gui' = [gui EXCEPT !.dialog = "Invalid output", !.runs = @ + 1]
            /\ UNCHANGED <<pc, fs_before, files, page_counts, idx, plan, writer,
                           progress, log, reads, error, result, uiHandled,
                           header_text>>
       ELSE /\ gui' = [gui EXCEPT !.btnRun = "disabled", !.status = "Starting...",
                                  !.dialog = "none", !.runs = @ + 1,
                                  !.workers = @ + 1]
            /\ pc' = "spawned"
            /\ fs_before' = fs
            /\ files' = <<>>
            /\ page_counts' = <<>>
            /\ idx' = 0
            /\ plan' = NoPlan
            /\ writer' = EmptyWriter
            /\ progress' = <<>>
            /\ log' = <<>>
            /\ reads' = <<>>
            /\ error' = NoError
            /\ result' = NoResult
            /\ uiHandled' = <<>>
            /\ header_text' = strip(gui.varHeader)
    /\ UNCHANGED <<folder, fs, layoutKind, outlineLib, uiQueue>>
    /\ UNCHANGED layoutVars

\* lines 461-462: the worker writes two lines to the log widget itself
WorkerStart ==
    /\ pc = "spawned"
    /\ uiHandled' = uiHandled \o <<Event("log", 0, ""),
                                   Event("log", 0, "Running pack...")>>
    /\ pc' = "start"
    /\ UNCHANGED <<folder, fs, fs_before, files, page_counts, idx, plan, writer,
                   progress, log, reads, error, result, layoutKind, outlineLib,
                   gui, uiQueue>>
    /\ UNCHANGED layoutVars
    /\ UNCHANGED header_text

\* A plausible slip: the worker runs the completion handler itself.
WorkerDone_Direct ==
    /\ gui.mode = "gui"
    /\ pc \in {"done", "failed"}
    /\ uiHandled' = Append(uiHandled,
                        Event(IF pc = "done" THEN "done_ok" ELSE "done_err", 0, ""))
    /\ gui' = [gui EXCEPT !.btnRun = "normal", !.reenabled = @ + 1,
                          !.status = IF pc = "done" THEN "Completed." ELSE "Error."]
    /\ pc' = "exited"
    /\ UNCHANGED <<folder, fs, fs_before, files, page_counts, idx, plan, writer,
                   progress, log, reads, error, result, layoutKind, outlineLib,
                   uiQueue>>
    /\ UNCHANGED layoutVars
    /\ UNCHANGED header_text

\* lines 485 and 496: the worker hands done_ok or done_err to the UI thread
\* and ends.
WorkerDone ==
    /\ gui.mode = "gui"
    /\ pc \in {"done", "failed"}
    /\ uiQueue' = after(uiQueue,
                     <<Event(IF pc = "done" THEN "done_ok" ELSE "done_err", 0, "")>>)
    /\ pc' = "exited"
    /\ UNCHANGED <<folder, fs, fs_before, files, page_counts, idx, plan, writer,
                   progress, log, reads, error, result, layoutKind, outlineLib,
                   gui, uiHandled>>
    /\ UNCHANGED layoutVars
    /\ UNCHANGED header_text

\* The UI thread runs the call at the head of its queue: _progress (lines
\* 439-441), _log (394-396), done_ok (471-483) or done_err (488-494).
UiProcess ==
    /\ uiQueue # <<>>
    /\ LET e == Head(uiQueue) IN
       /\ uiQueue' = Tail(uiQueue)
       /\ uiHandled' = Append(uiHandled, e)
       /\ gui' = IF e.kind = "progress" THEN [gui EXCEPT !.status = e.arg.msg]
                 ELSE IF e.kind = "done_ok"
                 THEN [gui EXCEPT !.status = "Completed.", !.btnRun = "normal",
                                  !.reenabled = @ + 1]
                 ELSE IF e.kind = "done_err"
                 THEN [gui EXCEPT !.status = "Error.", !.btnRun = "normal",
                                  !.dialog = "Error", !.reenabled = @ + 1]
                 ELSE gui
    /\ UNCHANGED <<pc, folder, fs, fs_before, files, page_counts, idx, plan, writer,
                   progress, log, reads, error, result, layoutKind, outlineLib>>
    /\ UNCHANGED layoutVars
    /\ UNCHANGED header_text

\* The steps of the worker thread
WorkerNext ==
    \/ WorkerStart
    \/ ListFiles
    \/ CountPages
    \/ Resolve
    \/ AddTocPages
    \/ MergeFile
    \/ Stamp
    \/ Persist
    \/ WorkerDone

NextGui ==
    \/ OnRun
    \/ WorkerNext
    \/ UiProcess

SpecGui == InitGui /\ [][NextGui]_vars

\* line 498 and line 533: the worker thread is scheduled until it ends, and
\* the main loop runs the calls handed to it.
FairSpecGui == SpecGui /\ WF_vars(WorkerNext) /\ WF_vars(UiProcess)

(***************************************************************************)
(* SpecBooklet: _sides_4up_cut_middle_user_scheme called with a number of   *)
(* real pages, its loop run block by block.                                *)
(***************************************************************************)
MaxRealPages == 40

\* No merge run, no window
Idle ==
    /\ pc = "idle"
    /\ folder = Unlistable
    /\ fs = NewFile
    /\ fs_before = fs
    /\ files = <<>>
    /\ page_counts = <<>>
    /\ idx = 0
    /\ plan = NoPlan
    /\ writer = EmptyWriter
    /\ progress = <<>>
    /\ log = <<>>
    /\ reads = <<>>
    /\ error = NoError
    /\ result = NoResult
    /\ layoutKind = "code"
    /\ outlineLib = "raises"
    /\ geom = DefaultGeometry
    /\ tocCall = NoCall
    /\ lppLog = <<>>
    /\ gui = NoGui
    /\ uiQueue = <<>>
    /\ uiHandled = <<>>
    /\ header_text = <<>>

\* line 124: the call, with len(pages) of the input document
InitBooklet ==
    /\ Idle
    /\ \E n \in 0..MaxRealPages :
          booklet = [NoBooklet EXCEPT !.pc = "call", !.intRealPages = n]
    /\ fields = NoFields

\* lines 78-80
BookletEnter ==
    /\ booklet.pc = "call"
    /\ booklet' = [booklet EXCEPT
                      !.pc = "loop",
                      !.intTotal = next_multiple(booklet.intRealPages, 8),
                      !.intBlocks = next_multiple(booklet.intRealPages, 8) \div 8,
                      !.i = 0,
                      !.vecSides = <<>>]
    /\ UNCHANGED <<geom, tocCall, lppLog, header_text, fields>>
    /\ UNCHANGED mergeVars
    /\ UNCHANGED guiVars

\* lines 82-97, one iteration of the loop over range(intBlocks)
BookletBlock ==
    /\ booklet.pc = "loop"
    /\ booklet.i < booklet.intBlocks
    /\ booklet' = [booklet EXCEPT
                      !.i = @ + 1,
                      !.vecSides = @ \o
                          <<front_side(booklet.intTotal, booklet.i,
                                       booklet.intRealPages),
                            back_side(booklet.intTotal, booklet.i,
                                      booklet.intRealPages)>>]
    /\ UNCHANGED <<geom, tocCall, lppLog, header_text, fields>>
    /\ UNCHANGED mergeVars
    /\ UNCHANGED guiVars

\* line 99
BookletReturn ==
    /\ booklet.pc = "loop"
    /\ booklet.i >= booklet.intBlocks
    /\ booklet' = [booklet EXCEPT !.pc = "returned"]
    /\ UNCHANGED <<geom, tocCall, lppLog, header_text, fields>>
    /\ UNCHANGED mergeVars
    /\ UNCHANGED guiVars

NextBooklet ==
    \/ BookletEnter
    \/ BookletBlock
    \/ BookletReturn

SpecBooklet == InitBooklet /\ [][NextBooklet]_vars

(***************************************************************************)
(* SpecForm: the folder, prefix and output fields of the window and the    *)
(* handlers that set them.                                                 *)
(***************************************************************************)
\* The paths a Save-as dialog returns or a user types
SavePaths == {Path(<<<<"a">>, <<"o">> \o PdfExt>>), Path(<<<<"o">>>>)}

\* lines 295-302
InitForm ==
    /\ Idle
    /\ booklet = NoBooklet
    /\ fields = [set_default_output(
                    [NoFields EXCEPT !.varPrefix = DefaultPrefix,
                                     !.status = "Drop a folder, or click Browse."])
                 EXCEPT !.last = "init"]

\* line 366: varPrefix is written (typed into), and the trace runs
OnPrefixWrite ==
    /\ \E p \in Prefixes :
          fields' = [set_default_output_if_not_custom(
                        [fields EXCEPT !.varPrefix = p])
                     EXCEPT !.last = "prefix"]
    /\ UNCHANGED <<geom, tocCall, lppLog, header_text, booklet>>
    /\ UNCHANGED mergeVars
    /\ UNCHANGED guiVars

\* lines 410-416: askdirectory returns a directory, or nothing
OnBrowseFolder ==
    /\ \E dir \in Dirs \cup {EmptyPath} :
          fields' =
             IF ~dir.empty
             THEN [fields EXCEPT
                      !.varFolder = dir,
                      !.varOut = default_output_for_folder_prefix(dir,
                                                                  fields.varPrefix),
                      !.outIsDefault = TRUE,
                      !.preview = dir,
                      !.last = "browse"]
             ELSE [fields EXCEPT !.last = "browse_cancelled"]
    /\ UNCHANGED <<geom, tocCall, lppLog, header_text, booklet>>
    /\ UNCHANGED mergeVars
    /\ UNCHANGED guiVars

\* A plausible slip: the output counts as chosen only when a path comes back.
OnChooseOutput_MarkIfChosen ==
    /\ \E path \in SavePaths \cup {EmptyPath} :
          fields' =
             IF ~path.empty
             THEN [fields EXCEPT !.outIsDefault = FALSE, !.varOut = path,
                                 !.last = "choose"]
             ELSE [fields EXCEPT !.last = "choose_cancelled"]
    /\ UNCHANGED <<geom, tocCall, lppLog, header_text, booklet>>
    /\ UNCHANGED mergeVars
    /\ UNCHANGED guiVars

\* lines 418-427: the flag is cleared, then asksaveasfilename returns a path,
\* or nothing
OnChooseOutput ==
    /\ \E path \in SavePaths \cup {EmptyPath} :
          fields' =
             IF ~path.empty
             THEN [fields EXCEPT !.outIsDefault = FALSE, !.varOut = path,
                                 !.last = "choose"]
             ELSE [fields EXCEPT !.outIsDefault = FALSE,
                                 !.last = "choose_cancelled"]
    /\ UNCHANGED <<geom, tocCall, lppLog, header_text, booklet>>
    /\ UNCHANGED mergeVars
    /\ UNCHANGED guiVars

\* lines 519-528: a directory, a file or nothing is dropped
OnDrop ==
    /\ \E path \in Dirs \cup NotDirs \cup {EmptyPath} :
          fields' =
             IF ~path.empty /\ isdir(path)
             THEN [fields EXCEPT
                      !.varFolder = path,
                      !.varOut = default_output_for_folder_prefix(path,
                                                                  fields.varPrefix),
                      !.outIsDefault = TRUE,
                      !.preview = path,
                      !.status = "Folder dropped.",
                      !.last = "drop"]
             ELSE [fields EXCEPT !.status = "Drop a folder (not a file).",
                                 !.last = "drop_refused"]
    /\ UNCHANGED <<geom, tocCall, lppLog, header_text, booklet>>
    /\ UNCHANGED mergeVars
    /\ UNCHANGED guiVars

\* lines 309 and 318: the user types into the folder or the output entry
OnEditEntry ==
    /\ \/ \E path \in NotDirs \cup {EmptyPath} :
             fields' = [fields EXCEPT !.varFolder = path, !.last = "edit_folder"]
       \/ \E path \in SavePaths :
             fields' = [fields EXCEPT !.varOut = path, !.last = "edit_out"]
    /\ UNCHANGED <<geom, tocCall, lppLog, header_text, booklet>>
    /\ UNCHANGED mergeVars
    /\ UNCHANGED guiVars

NextForm ==
    \/ OnPrefixWrite
    \/ OnBrowseFolder
    \/ OnChooseOutput
    \/ OnDrop
    \/ OnEditEntry

SpecForm == InitForm /\ [][NextForm]_vars

(***************************************************************************)
(* Properties                                                              *)
(***************************************************************************)
AfterResolve == pc \in {"assemble", "merge", "stamp", "persist", "done"}

AfterAssembly == pc \in {"stamp", "persist", "done"}

TocPagesOf(pages) == {k \in 1..Len(pages) : pages[k].src = NoFile}

\* C1: in every successful run, for every document index i in listing
\* order, start_pages[i] = toc_pages + 1 + sum(page_counts[0..i-1]), that is
\* start_pages[0] = toc_pages + 1 and start_pages[i] = start_pages[i-1] +
\* page_counts[i-1], with the toc_pages of the result.
C1_StartPagesFormula ==
    result.returned =>
        /\ Len(result.start_pages) = Len(result.files)
        /\ Len(result.page_counts) = Len(result.files)
        /\ \A i \in 1..Len(result.start_pages) :
              /\ result.start_pages[i]
                    = result.toc_pages + 1 + SumTo(result.page_counts, i - 1)
              /\ i = 1 => result.start_pages[i] = result.toc_pages + 1
              /\ i > 1 => result.start_pages[i]
                            = result.start_pages[i - 1] + result.page_counts[i - 1]

C1_Witness ==
    /\ result.returned
    /\ result.toc_pages = 2
    /\ \E i \in 2..Len(result.page_counts) :
          /\ result.page_counts[i] # result.page_counts[i - 1]
          /\ result.start_pages[i] > result.toc_pages + 1

\* C2: in every successful run the toc_pages value the returned start pages
\* were computed from equals the page count _build_toc_pdf_bytes reports for
\* the final entry list, whose pages are at the front of the output: the
\* number of TOC pages added to the writer is the offset of every start page.
C2_TocPagesConsistent ==
    /\ AfterResolve =>
          /\ plan.used = Layout(plan.toc_entries).toc_pages
          /\ plan.toc_entries = make_toc_entries(files, plan.starts)
          /\ Len(plan.toc_bytes) = plan.used
    /\ pc \in {"merge", "stamp", "persist", "done"} =>
          TocPagesOf(writer.pages) = 1..plan.used
    /\ result.returned =>
          /\ result.start_pages = plan.starts
          /\ result.toc_pages = plan.used
          /\ result.start_pages[1] = Cardinality(TocPagesOf(writer.pages)) + 1

C2_Witness ==
    /\ result.returned
    /\ Cardinality(TocPagesOf(writer.pages)) = 3
    /\ result.start_pages[1] = 4

\* C3: when the layout of the real entries needs another number of TOC
\* pages than the start pages were computed from, the resolver repeats
\* (bounded) and fails with PaginationDidNotConverge if the two never agree:
\* for any layout function, no plan leaves the resolver unless the layout of
\* its entries has the page count its start pages were computed from.
C3_NoPlanUnlessConverged ==
    AfterResolve => Layout(plan.toc_entries).toc_pages + 1 = plan.starts[1]

\* C4: for every entry list of length N and every geometry the page count
\* returned by _build_toc_pdf_bytes is max(1, ceil(N / lines_per_page)), and
\* exactly that many pages are drawn.
CeilDiv(n, d) == CHOOSE k \in 0..n : k * d >= n /\ (k - 1) * d < n

C4_PageCountIsCeil ==
    tocCall # NoCall =>
        /\ tocCall.toc_pages
              = Max(1, CeilDiv(Len(tocCall.entries), Max(1, RawCapacity(geom))))
        /\ Len(tocCall.pages) = tocCall.toc_pages

C4_Witness ==
    /\ tocCall # NoCall
    /\ Len(tocCall.entries) = Max(1, RawCapacity(geom)) + 1
    /\ RawCapacity(geom) > 1
    /\ tocCall.toc_pages = 2

\* C5: lines_per_page is a function of the geometry alone: the same for
\* every entry list and on every call, equal to max(1, floor((usable_height
\* - header_block_height) / line_height)), and at least 1 for any geometry,
\* also one whose usable height is smaller than the header block.
C5_CapacityOfGeometryAlone ==
    LET x == (geom.h - geom.top_margin - geom.bottom_margin)
                 - (geom.title_gap + 2 * (geom.font_size + geom.line_gap))
        line_h == geom.font_size + geom.line_gap
    IN  \A c \in 1..Len(lppLog) :
            /\ lppLog[c] >= 1
            /\ lppLog[c] = lppLog[1]
            /\ x >= line_h => lppLog[c] * line_h <= x /\ x < (lppLog[c] + 1) * line_h
            /\ x < line_h => lppLog[c] = 1

C5_Witness ==
    /\ Len(lppLog) = 2
    /\ Len(tocCall.entries) > 1
    /\ geom.h - geom.top_margin - geom.bottom_margin
          < geom.title_gap + 2 * (geom.font_size + geom.line_gap)

\* C6 as claimed: for any non-empty list of documents with non-negative
\* page counts, start_pages is strictly increasing.
C6_StrictlyIncreasing ==
    result.returned =>
        \A i \in 1..(Len(result.start_pages) - 1) :
            result.start_pages[i] < result.start_pages[i + 1]

\* C6 amended: start_pages never decreases, and start_pages[i] <
\* start_pages[i+1] exactly when document i has at least one page.
C6_IncreasingByPageCount ==
    result.returned =>
        \A i \in 1..(Len(result.start_pages) - 1) :
            /\ result.start_pages[i] <= result.start_pages[i + 1]
            /\ result.start_pages[i] < result.start_pages[i + 1]
                  <=> result.page_counts[i] >= 1

C6_Witness ==
    /\ result.returned
    /\ \E i, j \in 1..(Len(result.start_pages) - 1) :
          /\ result.page_counts[i] = 0
          /\ result.start_pages[i] = result.start_pages[i + 1]
          /\ result.page_counts[j] >= 1

\* C7: in every successful run total_pages = toc_pages + sum(page_counts),
\* and the output is the TOC pages followed by each document's pages in
\* listing order, so the first page of document i is at 1-based position
\* start_pages[i].
C7_TotalAndOrder ==
    result.returned =>
        /\ result.total_pages = result.toc_pages + Sum(result.page_counts)
        /\ result.total_pages = Len(writer.pages)
        /\ \A p \in 1..result.toc_pages :
              writer.pages[p].src = NoFile /\ writer.pages[p].no = p
        /\ \A i \in 1..Len(result.files) :
              \A k \in 1..result.page_counts[i] :
                 LET p == result.start_pages[i] + k - 1
                 IN  /\ p <= Len(writer.pages)
                     /\ writer.pages[p].src = result.files[i]
                     /\ writer.pages[p].no = k

C7_Witness ==
    /\ result.returned
    /\ result.toc_pages = 2
    /\ result.total_pages > result.toc_pages + Len(result.files)
    /\ writer.pages[result.start_pages[Len(result.files)]].src
          = result.files[Len(result.files)]

\* C8 as claimed: the output carries exactly one bookmark per source
\* document, in listing order, and each bookmark's 0-based target is
\* start_page - 1, the index of that document's own first page, for every
\* page count (0 pages included).
C8_OneBookmarkPerDocument ==
    result.returned =>
        /\ Len(writer.outline) = Len(result.files)
        /\ \A i \in 1..Len(writer.outline) :
              LET b == writer.outline[i]
              IN  /\ b.title = result.files[i]
                  /\ b.page_number = result.start_pages[i] - 1
                  /\ b.page_number < Len(writer.pages)
                  /\ writer.pages[b.page_number + 1].src = result.files[i]
                  /\ writer.pages[b.page_number + 1].no = 1

IndexOfFile(f) == CHOOSE i \in 1..Len(result.files) : result.files[i] = f

\* C8 amended: the bookmarks are in listing order, at most one per
\* document and exactly one for every document that has a page; each
\* bookmark's 0-based target is its document's start_page - 1, which for a
\* document that has a page is the index of that document's first page.
C8_BookmarksOfDocumentsWithPages ==
    result.returned =>
        /\ \A j \in 1..Len(writer.outline) :
              LET b == writer.outline[j]
              IN  /\ \E i \in 1..Len(result.files) : result.files[i] = b.title
                  /\ b.page_number = result.start_pages[IndexOfFile(b.title)] - 1
                  /\ j > 1 => IndexOfFile(writer.outline[j - 1].title)
                                < IndexOfFile(b.title)
        /\ \A i \in 1..Len(result.files) :
              result.page_counts[i] >= 1 =>
                 \E j \in 1..Len(writer.outline) :
                    LET b == writer.outline[j]
                    IN  /\ b.title = result.files[i]
                        /\ b.page_number < Len(writer.pages)
                        /\ writer.pages[b.page_number + 1].src = result.files[i]
                        /\ writer.pages[b.page_number + 1].no = 1

C8_Witness ==
    /\ result.returned
    /\ Len(writer.outline) >= 2
    /\ Len(writer.outline) < Len(result.files)
    /\ result.page_counts[Len(result.files)] = 0

\* C9: after stamping, every stamped page carries the footer "Page i of
\* total" with i the page's 1-based position in the final document (TOC
\* pages counted) and total the page count of the whole output.
C9_FooterOfStampedPages ==
    /\ \A k \in 1..Len(writer.pages) :
          writer.pages[k].stamped =>
             writer.pages[k].footer = <<k, Len(writer.pages)>>
    /\ result.returned =>
          \A k \in 1..Len(writer.pages) :
             writer.pages[k].stamped => writer.pages[k].footer[2] = result.total_pages

C9_Witness ==
    /\ result.returned
    /\ Len(writer.pages) >= 4
    /\ writer.pages[1].stamped /\ writer.pages[1].src = NoFile
    /\ writer.pages[Len(writer.pages)].stamped
    /\ writer.pages[Len(writer.pages)].src # NoFile
    /\ \E k \in 1..Len(writer.pages) : ~writer.pages[k].stamped

\* C10: if the folder holds no PDF file, or cannot be listed, the run fails
\* with the empty-input error before counting, assembling or writing: no
\* progress callback, no file read, no directory created, the output path
\* neither created nor modified.
NoPdfIn(fd) ==
    ~fd.listable \/ \A e \in fd.entries : ~(lower_ext(e.ext) = "pdf" /\ e.isfile)

C10_EmptyInputFailsFirst ==
    (pc # "start" /\ NoPdfIn(folder)) =>
        /\ pc = "failed"
        /\ error = [type |-> "ValueError", file |-> NoFile]
        /\ progress = <<>>
        /\ log = <<>>
        /\ reads = <<>>
        /\ writer = EmptyWriter
        /\ fs = fs_before
        /\ ~result.returned

C10_Witness ==
    /\ pc = "failed"
    /\ error.type = "ValueError"
    /\ folder.listable
    /\ folder.entries # {}
    /\ fs.file = "old"

C10_WitnessUnlistable ==
    /\ pc = "failed"
    /\ error.type = "ValueError"
    /\ ~folder.listable
    /\ ~fs.dir

\* C11: if a source file cannot be opened or parsed at any point of the run
\* (while counting or while merging), the run fails with the error that
\* wraps the failure and names the offending file (RuntimeError "Failed to
\* read PDF: <file>"), and the destination is left as the run found it.
SourceReadFailed ==
    pc = "failed" /\ error.type \in {"RuntimeError", "PdfReaderException"}

C11_CorruptSourceNamesFile ==
    SourceReadFailed =>
        /\ error.type = "RuntimeError"
        /\ reads # <<>>
        /\ error.file = reads[Len(reads)]
        /\ fs = fs_before
        /\ ~result.returned

\* C12: within one run every source document is read exactly once: no file
\* occurs twice among the PdfReader calls of the run.
ReadsOf(f) == Cardinality({k \in 1..Len(reads) : reads[k] = f})

C12_EachFileReadOnce ==
    \A k \in 1..Len(files) : ReadsOf(files[k]) <= 1

\* C13: the source documents are the files directly inside the folder whose
\* extension is "pdf" in any case (directories and other files are left
\* out), ordered by lower-cased filename, and this one order is the order of
\* page_counts, start_pages, the TOC entries, the log lines, the bookmarks
\* and the concatenated pages: index i is the same file in all of them.
PdfFilesIn(fd) ==
    {e.name : e \in {x \in fd.entries : lower_ext(x.ext) = "pdf" /\ x.isfile}}

PhaseOf(msg) ==
    IF msg = "Counting pages" THEN 1 ELSE IF msg = "Merging" THEN 2 ELSE 3

Stamped == progress # <<>> /\ progress[Len(progress)].msg = "Stamping"

C14_StepsInOrder ==
    /\ pc = "start" =>
          /\ files = <<>> /\ progress = <<>> /\ reads = <<>>
          /\ plan = NoPlan /\ writer = EmptyWriter
    /\ pc = "count" => plan = NoPlan /\ writer = EmptyWriter /\ files # <<>>
    /\ plan # NoPlan =>
          /\ Len(page_counts) = Len(files)
          /\ Len(progress) >= Len(files)
    /\ writer # EmptyWriter => plan # NoPlan /\ Len(writer.pages) >= plan.toc_pages
    /\ pc = "merge" => Len(writer.pages) >= plan.toc_pages /\ plan.toc_pages >= 1
    /\ (\E k \in 1..Len(writer.pages) : writer.pages[k].stamped) => Stamped
    /\ Stamped =>
          /\ Len(writer.pages) = plan.toc_pages + Sum(page_counts)
          /\ Len(reads) = 2 * Len(files)
          /\ pc \in {"persist", "done", "failed"}
    /\ \A k \in 1..(Len(progress) - 1) :
          PhaseOf(progress[k].msg) <= PhaseOf(progress[k + 1].msg)
    /\ fs # fs_before =>
          /\ Stamped
          /\ pc \in {"done", "failed"}
          /\ pc = "failed" => error.type = "OSError"
    /\ (pc = "failed" /\ error.type # "OSError") =>
          /\ fs = fs_before
          /\ ~result.returned
    /\ result.returned => pc = "done" /\ Stamped /\ fs.file = "written"

\* A run that failed in the merging loop after pages of a document were
\* added, with an older file at the destination.
C14_Witness ==
    /\ pc = "failed"
    /\ error.type = "PdfReaderException"
    /\ fs_before.file = "old"
    /\ fs = fs_before
    /\ plan.toc_pages >= 1
    /\ Len(writer.pages) > plan.toc_pages
    /\ ~Stamped

\* C15 as stated: the index of the progress tuples never decreases over the
\* whole run, and index <= total in every tuple.
C15_IndexMonotoneOverRun ==
    /\ \A k \in 1..Len(progress) : progress[k].i <= progress[k].n
    /\ \A k \in 1..(Len(progress) - 1) : progress[k].i <= progress[k + 1].i

\* C15, amended: 1 <= index <= total in every tuple; within a phase
\* (Counting pages, Merging) the index goes up by one from 1 with total the
\* number of documents, naming the document at that index; it starts again
\* at 1 when the next phase begins; stamping reports the one tuple (1, 1).
C15_IndexIncreasesWithinPhase ==
    \A k \in 1..Len(progress) :
        LET e == progress[k] IN
        /\ 1 <= e.i /\ e.i <= e.n
        /\ IF k > 1 /\ progress[k - 1].msg = e.msg
           THEN e.i = progress[k - 1].i + 1
           ELSE e.i = 1
        /\ IF e.msg = "Stamping"
           THEN e.n = 1 /\ k = Len(progress)
           ELSE e.n = Len(files) /\ e.file = files[e.i]

\* A run over at least two documents that has reported the last document
\* counted, then the first document merged, and has returned.
C15_Witness ==
    /\ result.returned
    /\ Len(files) >= 2
    /\ \E k \in 1..(Len(progress) - 1) :
          /\ progress[k].msg = "Counting pages"
          /\ progress[k].i = Len(files)
          /\ progress[k + 1].msg = "Merging"
          /\ progress[k + 1].i = 1
    /\ progress[Len(progress)] = Progress(1, 1, "Stamping", NoFile)

\* C16: the worker hands every progress and log callback to the UI thread
\* and goes on without waiting (its next step is enabled whatever the UI has
\* consumed); the UI runs the callbacks in the order the pipeline issued
\* them, each once; and it runs the completion handler after every callback
\* of that run.
IsCallback(e) == e.kind \in {"progress", "log"} /\ e.no > 0

IsDone(e) == e.kind \in {"done_ok", "done_err"}

CallbacksOf(seq) == SelectSeq(seq, IsCallback)

WorkerRunning ==
    pc \in {"spawned", "start", "count", "resolve", "assemble", "merge", "stamp",
            "persist", "done", "failed"}

C16_CallbacksInOrderThenDone ==
    gui.mode = "gui" =>
        LET all == CallbacksOf(uiHandled \o uiQueue)
            run == CallbacksOf(uiHandled)
        IN  /\ Len(all) = Len(progress) + Len(log)
            /\ \A k \in 1..Len(all) : all[k].no = k
            /\ \A k \in 1..Len(all) :
                  IF all[k].kind = "progress"
                  THEN \E j \in 1..Len(progress) : progress[j] = all[k].arg
                  ELSE \E j \in 1..Len(log) : log[j] = all[k].arg
            /\ \A k \in 1..Len(uiHandled) :
                  IsDone(uiHandled[k]) =>
                     /\ k = Len(uiHandled)
                     /\ Len(run) = Len(progress) + Len(log)
                     /\ uiQueue = <<>>
                     /\ pc = "exited"
                     /\ uiHandled[k].kind = "done_ok" <=> result.returned
            /\ WorkerRunning => ENABLED WorkerNext

\* The completion handler has run after the seven callbacks of a run over
\* two documents.
C16_Witness ==
    /\ gui.mode = "gui"
    /\ uiHandled # <<>>
    /\ uiHandled[Len(uiHandled)].kind = "done_ok"
    /\ Len(CallbacksOf(uiHandled)) >= 7
    /\ \E k \in 1..(Len(uiHandled) - 1) :
          uiHandled[k].kind = "progress" /\ uiHandled[k + 1].kind = "log"
    /\ gui.btnRun = "normal"

\* C17: a page of no width or no height is skipped by the stamper, which
\* records a warning for it (a line beyond the lines of the TOC listing);
\* the run goes on to persist.
WarningsRecorded == Len(log) - (Len(files) + 1)

C17_DegeneratePageSkippedWithWarning ==
    pc \in {"persist", "done"} =>
        \A k \in 1..Len(writer.pages) :
            Degenerate(writer.pages[k]) =>
                /\ ~writer.pages[k].stamped
                /\ WarningsRecorded >= 1

\* C20: the overlay of every stamped page has that page's own width and
\* height, and stamping leaves the number of pages, their order, their
\* content, their width and height and the bookmarks as they were: a page
\* changes in nothing but the overlay merged into it.
Unstamped(page) ==
    [page EXCEPT !.stamped = FALSE, !.footer = <<0, 0>>, !.overlay = <<0, 0>>,
                 !.header = NoHeader]

StampStep == pc = "stamp" /\ pc' = "persist"

C20_OverlayOfPageSize ==
    [][StampStep =>
          /\ Len(writer'.pages) = Len(writer.pages)
          /\ writer'.outline = writer.outline
          /\ \A k \in 1..Len(writer.pages) :
                /\ Unstamped(writer'.pages[k]) = writer.pages[k]
                /\ writer'.pages[k].stamped =>
                      writer'.pages[k].overlay
                         = <<writer.pages[k].w, writer.pages[k].h>>]_vars

\* Stamped pages of three sizes: the letter page of the TOC, an A4 page and
\* a landscape letter page, each under an overlay of its own size.
C20_Witness ==
    /\ pc = "persist"
    /\ \E a, b, c \in 1..Len(writer.pages) :
          /\ a < b /\ b < c
          /\ writer.pages[a].stamped /\ writer.pages[a].overlay = <<612, 792>>
          /\ writer.pages[b].stamped /\ writer.pages[b].overlay = <<595, 842>>
          /\ writer.pages[c].stamped /\ writer.pages[c].overlay = <<792, 612>>
          /\ writer.pages[a].src = NoFile
          /\ writer.pages[b].src # writer.pages[c].src

\* C19 as stated: for three documents of 2, 1 and 5 pages the TOC holds 40
\* lines per page and the run yields toc_pages = 1, start_pages = [2, 4, 5]
\* and total_pages = 9.
LinesPerPageOfRun == Layout(plan.toc_entries).lines_per_page

C19_ScenarioACapacity40 ==
    (result.returned /\ result.page_counts = <<2, 1, 5>>) =>
        /\ LinesPerPageOfRun = 40
        /\ result.toc_pages = 1
        /\ result.start_pages = <<2, 4, 5>>
        /\ result.total_pages = 9

\* C19, amended: for three documents of 2, 1 and 5 pages the TOC holds 45
\* lines per page (the default geometry) and the run yields toc_pages = 1,
\* start_pages = [2, 4, 5] and total_pages = 9.
C19_ScenarioACapacity45 ==
    (result.returned /\ result.page_counts = <<2, 1, 5>>) =>
        /\ LinesPerPageOfRun = 45
        /\ Len(plan.toc_bytes) = 1
        /\ Len(plan.toc_bytes[1].lines) = 3
        /\ result.toc_pages = 1
        /\ result.start_pages = <<2, 4, 5>>
        /\ result.total_pages = 9
        /\ Len(writer.pages) = 9

C19_Witness ==
    /\ result.returned
    /\ Len(result.files) = 3
    /\ result.page_counts = <<2, 1, 5>>
    /\ folder = ScenarioA
    /\ fs.file = "written"

\* C21: on every stamped page the header is drawn exactly when the header
\* text holds a character that is no whitespace, and then as the text
\* without the whitespace around it; the footer is drawn on every stamped
\* page, whatever the header; a page that is not stamped carries neither.
NonBlank(text) == \E k \in 1..Len(text) : text[k] \notin Whitespace

Trimmed(text) ==
    LET first == CHOOSE a \in 1..Len(text) :
                    /\ text[a] \notin Whitespace
                    /\ \A k \in 1..(a - 1) : text[k] \in Whitespace
        last == CHOOSE b \in 1..Len(text) :
                    /\ text[b] \notin Whitespace
                    /\ \A k \in (b + 1)..Len(text) : text[k] \in Whitespace
    IN  SubSeq(text, first, last)

C21_HeaderIffNonEmpty ==
    \A k \in 1..Len(writer.pages) :
        LET p == writer.pages[k] IN
        IF p.stamped
        THEN /\ p.header.drawn <=> NonBlank(header_text)
             /\ p.header.drawn => p.header.text = Trimmed(header_text)
             /\ ~p.header.drawn => p.header.text = <<>>
             /\ p.footer = <<k, Len(writer.pages)>>
        ELSE p.header = NoHeader /\ p.footer = <<0, 0>>

\* A run that returned with a header of whitespace only: its stamped pages
\* carry the footer and no header.
C21_Witness ==
    /\ result.returned
    /\ header_text # <<>>
    /\ ~NonBlank(header_text)
    /\ Len(writer.pages) >= 2
    /\ \A k \in 1..Len(writer.pages) :
          /\ writer.pages[k].stamped
          /\ ~writer.pages[k].header.drawn
          /\ writer.pages[k].footer = <<k, Len(writer.pages)>>

\* C22: for N real pages and T the smallest multiple of 8 that is >= N the
\* function returns T / 4 sides, front then back for every block
\* i = 0..T/8-1, front = (T-4i, 1+4i, T-4i-2, 3+4i) and back = (2+4i,
\* T-4i-1, 4+4i, T-4i-3), every number greater than N replaced by a blank.
SmallestMultipleOf8(n) == CHOOSE t \in 0..(n + 8) : t % 8 = 0 /\ t >= n /\ t - 8 < n

BlankAbove(side, n) == [k \in 1..4 |-> IF side[k] > n THEN Blank ELSE side[k]]

C22_SidesInBookletOrder ==
    booklet.pc = "returned" =>
        LET N == booklet.intRealPages
            T == SmallestMultipleOf8(N)
            sides == booklet.vecSides
        IN  /\ Len(sides) * 4 = T
            /\ \A i \in 0..((T \div 8) - 1) :
                  /\ sides[2 * i + 1]
                        = BlankAbove(<<T - 4 * i, 1 + 4 * i, T - 4 * i - 2, 3 + 4 * i>>, N)
                  /\ sides[2 * i + 2]
                        = BlankAbove(<<2 + 4 * i, T - 4 * i - 1, 4 + 4 * i, T - 4 * i - 3>>, N)

\* 13 real pages: four sides, the first (blank, 1) over (blank, 3), the
\* second (2, blank) over (4, 13).
C22_Witness ==
    /\ booklet.pc = "returned"
    /\ booklet.intRealPages = 13
    /\ Len(booklet.vecSides) = 4
    /\ booklet.vecSides[1] = <<Blank, 1, Blank, 3>>
    /\ booklet.vecSides[2] = <<2, Blank, 4, 13>>
    /\ booklet.vecSides[3] = <<12, 5, 10, 7>>

\* C25: for every N >= 1 every real page 1..N is in exactly one slot of the
\* sides returned, no slot holds a number outside 1..N, and the blank slots
\* number T - N, fewer than 8, T being N rounded up to a multiple of 8.
Slots(sides) == {<<s, k>> : s \in 1..Len(sides), k \in 1..4}

C25_PermutationWithPadding ==
    (booklet.pc = "returned" /\ booklet.intRealPages >= 1) =>
        LET N == booklet.intRealPages
            sides == booklet.vecSides
            blanks == {sl \in Slots(sides) : sides[sl[1]][sl[2]] = Blank}
        IN  /\ \A p \in 1..N :
                  Cardinality({sl \in Slots(sides) : sides[sl[1]][sl[2]] = p}) = 1
            /\ \A sl \in Slots(sides) :
                  sides[sl[1]][sl[2]] = Blank \/ sides[sl[1]][sl[2]] \in 1..N
            /\ Cardinality(blanks) = SmallestMultipleOf8(N) - N
            /\ Cardinality(blanks) < 8

\* 9 real pages on four sides with seven blank slots
C25_Witness ==
    /\ booklet.pc = "returned"
    /\ booklet.intRealPages = 9
    /\ Cardinality(Slots(booklet.vecSides)) = 16
    /\ Cardinality({sl \in Slots(booklet.vecSides) :
                       booklet.vecSides[sl[1]][sl[2]] = Blank}) = 7

\* C23: the TOC page count of the placeholder entries equals the count of
\* the real entries, so the correction of line 215 is never made and the
\* start pages kept are those of the first pass; 100 documents give 3 TOC
\* pages without correction.
C23_NoCorrectionEver ==
    AfterResolve =>
        LET placeholders == [k \in 1..Len(files) |-> <<files[k], 1>>]
            first == Layout(placeholders).toc_pages
        IN  /\ ~plan.corrected
            /\ Layout(plan.toc_entries).toc_pages = first
            /\ plan.toc_pages = first
            /\ plan.used = first
            /\ \A k \in 1..Len(files) :
                  plan.starts[k] = first + 1 + SumTo(page_counts, k - 1)
            /\ Len(files) = 100 => plan.toc_pages = 3

\* A run over 100 documents of two pages, whose real entries carry page
\* numbers of up to three digits, returned with 3 TOC pages.
C23_Witness ==
    /\ result.returned
    /\ Len(files) = 100
    /\ result.toc_pages = 3
    /\ ~plan.corrected
    /\ plan.toc_entries[100][2] = 202
    /\ Len(writer.pages) = 203

\* C24: the TOC pages hold the entries in input order, page k (0-based) the
\* entries [k * capacity, min(N, (k + 1) * capacity)): at most capacity
\* lines on a page, every entry on exactly one page, and no page but the
\* last partly filled.
LineAt(k, j) == tocCall.pages[k].lines[j]

C24_EntriesPartitionedInOrder ==
    tocCall # NoCall =>
        LET cap == tocCall.lines_per_page
            N == Len(tocCall.entries)
            np == Len(tocCall.pages)
        IN  /\ \A k \in 1..np :
                  /\ Len(tocCall.pages[k].lines) <= cap
                  /\ k < np => Len(tocCall.pages[k].lines) = cap
                  /\ Len(tocCall.pages[k].lines) = Max(0, Min(N, k * cap) - (k - 1) * cap)
                  /\ \A j \in 1..Len(tocCall.pages[k].lines) :
                        LineAt(k, j) = tocCall.entries[(k - 1) * cap + j]
            /\ \A e \in 1..N :
                  Cardinality({kj \in {<<k, j>> : k \in 1..np, j \in 1..cap} :
                                  /\ kj[2] <= Len(tocCall.pages[kj[1]].lines)
                                  /\ LineAt(kj[1], kj[2]) = tocCall.entries[e]}) = 1

\* A layout of one entry more than a page holds, on a page of several
\* lines: a full first page and a second page of one line.
C24_Witness ==
    /\ tocCall # NoCall
    /\ tocCall.lines_per_page >= 2
    /\ Len(tocCall.pages) = 2
    /\ Len(tocCall.pages[1].lines) = tocCall.lines_per_page
    /\ tocCall.pages[2].lines = <<tocCall.entries[Len(tocCall.entries)]>>
    /\ tocCall.entries[1][2] > 1

\* C26: the Generate button is disabled exactly while a worker is in flight
\* (from on_run starting it until its completion handler has run), a worker
\* is started only when none is in flight, every worker started re-enables
\* the button exactly once, with status "Completed." or "Error.", and does
\* so eventually; on_run with no valid folder or no .pdf output path starts
\* no worker and leaves the button enabled.
DonePending == {k \in 1..Len(uiQueue) : IsDone(uiQueue[k])}

InFlight == WorkerRunning \/ DonePending # {}

C26_ButtonState ==
    gui.mode = "gui" =>
        /\ gui.btnRun = "disabled" <=> InFlight
        /\ Cardinality(DonePending) <= 1
        /\ DonePending # {} => pc = "exited"
        /\ gui.reenabled = gui.workers - (IF InFlight THEN 1 ELSE 0)
        /\ gui.workers <= gui.runs
        /\ (pc = "exited" /\ ~InFlight) =>
              /\ gui.status \in {"Completed.", "Error."}
              /\ gui.status = "Completed." <=> result.returned
        /\ gui.form # "ok" =>
              /\ gui.workers = 0
              /\ pc = "none"
              /\ gui.btnRun = "normal"
              /\ gui.runs > 0 => gui.dialog \in {"Missing folder", "Invalid output"}

C26_WorkerStartedWhenNoneInFlight ==
    (gui'.workers # gui.workers) =>
        /\ ~InFlight
        /\ gui'.workers = gui.workers + 1
        /\ gui'.btnRun = "disabled"
        /\ pc' = "spawned"

\* C26: the button is disabled exactly while a worker is in flight, a
\* worker is started only when none is, every worker re-enables the button
\* exactly once and eventually, and on_run with an invalid form starts none.
C26_ButtonDisabledWhileWorkerRuns ==
    /\ []C26_ButtonState
    /\ [][C26_WorkerStartedWhenNoneInFlight]_vars
    /\ (gui.btnRun = "disabled") ~> (gui.btnRun = "normal")

\* Two workers were started, one after the other; the first wrote the
\* output, the second failed; each has re-enabled the button.
C26_Witness ==
    /\ gui.mode = "gui"
    /\ gui.workers = 2
    /\ gui.reenabled = 2
    /\ gui.btnRun = "normal"
    /\ gui.status = "Error."
    /\ fs.file = "written"
    /\ pc = "exited"

\* The directory a folder lies in; the root lies in itself.
ParentOf(path) ==
    IF Len(path.comps) = 0 THEN <<>>
    ELSE [k \in 1..(Len(path.comps) - 1) |-> path.comps[k]]

\* The file name of the default output: the prefix without the blanks around
\* it and with "_" for each separator, or "packed" for a blank prefix, and
\* ".pdf".
PrefixOrPacked(prefix) ==
    LET name == IF NonBlank(prefix) THEN Trimmed(prefix) ELSE Packed
    IN  [k \in 1..(Len(name) + 4) |->
            IF k > Len(name) THEN PdfExt[k - Len(name)]
            ELSE IF name[k] = Sep THEN "_" ELSE name[k]]

InParentOfFolder(out, dir, prefix) ==
    /\ ~out.empty
    /\ out.comps = Append(ParentOf(dir), PrefixOrPacked(prefix))

C27_PrefixWrite ==
    fields'.last = "prefix" =>
       IF fields.outIsDefault
       THEN /\ fields'.outIsDefault
            /\ fields'.varFolder \in Dirs =>
                  InParentOfFolder(fields'.varOut, fields'.varFolder, fields'.varPrefix)
            /\ fields'.varFolder \notin Dirs =>
                  /\ SubSeq(fields'.varOut.comps, 1, Len(Cwd)) = Cwd
                  /\ (\A k \in 1..Len(fields'.varPrefix) : fields'.varPrefix[k] # Sep) =>
                        fields'.varOut.comps =
                           Append(Cwd, PrefixOrPacked(fields'.varPrefix))
       ELSE /\ ~fields'.outIsDefault
            /\ fields'.varOut = fields.varOut

C27_SaveAs ==
    fields'.last \in {"choose", "choose_cancelled"} =>
       /\ ~fields'.outIsDefault
       /\ fields'.last = "choose_cancelled" => fields'.varOut = fields.varOut

C27_FolderChosen ==
    fields'.last \in {"browse", "drop"} =>
       /\ fields'.varFolder \in Dirs
       /\ InParentOfFolder(fields'.varOut, fields'.varFolder, fields.varPrefix)
       /\ fields'.varPrefix = fields.varPrefix
       /\ fields'.outIsDefault

\* C27: while _outIsDefault is true a write of the prefix sets the output path
\* anew from the folder and the prefix (the file of the prefix's name in the
\* parent of the folder, or in the working directory when no directory is
\* set) and the flag stays true; "Save as..." makes the flag false whether a
\* path is chosen or the dialog is cancelled, and while it is false a write of
\* the prefix leaves the output path as it was; browsing to or dropping a
\* folder sets the output path to <parent of folder>/<prefix or packed>.pdf
\* and makes the flag true.
C27_OutputDefaulting ==
    [][C27_PrefixWrite /\ C27_SaveAs /\ C27_FolderChosen]_vars

\* A folder was chosen, "Save as..." was cancelled and the prefix was then
\* written: the output path is still the one of the earlier prefix.
C27_Witness ==
    /\ fields.last = "prefix"
    /\ ~fields.outIsDefault
    /\ fields.varFolder \in Dirs
    /\ ~InParentOfFolder(fields.varOut, fields.varFolder, fields.varPrefix)
    /\ \E p \in Prefixes : InParentOfFolder(fields.varOut, fields.varFolder, p)

====
